---- MODULE Spec2Model ----
(***************************************************************************)
(* A model of restic_backup/backup.py: the Config object built from the    *)
(* parsed YAML document, the command strings it derives, the job runner    *)
(* _run_main_job (backup -> forget -> check), the result e-mail and main.  *)
(*                                                                         *)
(* Representation.  A str is a sequence of one-character strings.  A dict  *)
(* is a function whose DOMAIN is the set of keys present.  An Optional     *)
(* value is <<>> (None) or <<v>>.  The keep mapping is the sequence of its *)
(* <<key, value>> items in insertion order.  The captured stdout/stderr of *)
(* a process are kept as the empty bytes string.                           *)
(***************************************************************************)
EXTENDS Integers, Sequences, FiniteSets, TLC

VARIABLES
    raw,        \* the document yaml.load returned (Config.__init__, line 34)
    yagmail,    \* whether `import yagmail` succeeds (line 162)
    pc,         \* the position of main / of the function under call
    config,     \* the attributes of the Config object set so far
    running,    \* the argv of the child process being waited for, if any
    executed,   \* every argv handed to Popen, in order
    results,    \* the list of CommandResult of _run_main_job
    error,      \* the exception that ended the run, if any
    dispatched, \* the result list of every call of _send_result_email
    sent,       \* the messages handed to yag.send
    call,       \* the arguments of a direct call of Config._list_to_cmd
    ret         \* what a direct call of a Config method returned

vars == <<raw, yagmail, pc, config, running, executed, results, error, dispatched,
          sent, call, ret>>

----------------------------------------------------------------------------
(* Bounds of the model *)

\* exit codes of a child process range over -MaxSignal .. MaxExit
MaxExit == 2
MaxSignal == 1
\* longest list handed to _list_to_cmd directly
MaxList == 3
\* most entries of a keep mapping
MaxKeep == 2
\* longest result list handed to _send_result_email directly
MaxResults == 3

ExitCodes == (0 - MaxSignal) .. MaxExit

----------------------------------------------------------------------------
(* str helpers *)

SP == " "

RECURSIVE Concat(_)
\* "".join(ss)
Concat(ss) == IF ss = <<>> THEN <<>> ELSE Head(ss) \o Concat(Tail(ss))

RECURSIVE Join(_, _)
\* sep.join(ss)   (str.join, used at lines 94 and 196)
Join(sep, ss) ==
    IF ss = <<>> THEN <<>>
    ELSE IF Len(ss) = 1 THEN ss[1]
    ELSE ss[1] \o sep \o Join(sep, Tail(ss))

RECURSIVE Count(_, _)
\* s.count(c)
Count(c, s) ==
    IF s = <<>> THEN 0
    ELSE (IF Head(s) = c THEN 1 ELSE 0) + Count(c, Tail(s))

Digit(d) == <<"0", "1", "2", "3", "4", "5", "6", "7", "8", "9">>[d + 1]

RECURSIVE NatStr(_)
NatStr(n) == IF n < 10 THEN <<Digit(n)>> ELSE NatStr(n \div 10) \o <<Digit(n % 10)>>

\* str(n) of an int, as an f-string formats it
IntStr(n) == IF n < 0 THEN <<"-">> \o NatStr(0 - n) ELSE NatStr(n)

RECURSIVE SplitOn(_, _, _)
\* the pieces of s between occurrences of c; cur is the piece being read
SplitOn(c, s, cur) ==
    IF s = <<>> THEN <<cur>>
    ELSE IF Head(s) = c THEN <<cur>> \o SplitOn(c, Tail(s), <<>>)
    ELSE SplitOn(c, Tail(s), Append(cur, Head(s)))

RECURSIVE DropAll(_, _)
\* ss without the entries that are in the set drop
DropAll(drop, ss) ==
    IF ss = <<>> THEN <<>>
    ELSE IF Head(ss) \in drop THEN DropAll(drop, Tail(ss))
    ELSE <<Head(ss)>> \o DropAll(drop, Tail(ss))

\* shlex.split(cmd) for a command line without quotes or backslashes:
\* the maximal runs of non-blank characters
ShlexSplit(cmd) == DropAll({<<>>}, SplitOn(SP, cmd, <<>>))

\* str(pathlib.Path(x)) on POSIX: empty and "." components and a trailing
\* slash are dropped, runs of slashes collapse, exactly two leading slashes
\* are kept, and the empty path is "."
PathStr(x) ==
    LET parts == DropAll({<<>>, <<".">>}, SplitOn("/", x, <<>>))
        root  == IF Len(x) >= 1 /\ x[1] = "/"
                 THEN IF Len(x) >= 2 /\ x[2] = "/" /\ (Len(x) = 2 \/ x[3] # "/")
                      THEN <<"/", "/">>
                      ELSE <<"/">>
                 ELSE <<>>
        s     == root \o Join(<<"/">>, parts)
    IN  IF s = <<>> THEN <<".">> ELSE s

\* dict.get(k, default)
Get(d, k, default) == IF k \in DOMAIN d THEN d[k] ELSE default

\* dict.get(k): None when the key is absent
GetOpt(d, k) == IF k \in DOMAIN d THEN <<d[k]>> ELSE <<>>

\* a dict with the one key k when o = <<v>>, the empty dict when o = <<>>
Entry(k, o) == IF o = <<>> THEN <<>> ELSE (k :> o[1])

----------------------------------------------------------------------------
(* Exceptions *)

NoError == [type |-> "none", text |-> "", code |-> <<>>, cmd |-> <<>>]

\* an exception of class type whose message is text, formatted with the
\* exit code and the command in code and cmd (each <<>> when not printed)
Exc(type, text, code, cmd) == [type |-> type, text |-> text, code |-> code, cmd |-> cmd]

ResticBackupException(text) == Exc("ResticBackupException", text, <<>>, <<>>)

----------------------------------------------------------------------------
(* class Config *)

DEFAULT_RESTIC == <<"/", "u", "s", "r", "/", "b", "i", "n", "/", "r", "e", "s", "t", "i", "c">>

\* Config.__init__ with backup.get("directories", []) for backup["directories"]:
\* a missing directories key loads as no directory
Config__init___DefaultDirs(conf) ==
    IF "backup" \notin DOMAIN conf
    THEN [self |-> <<>>, exc |-> ResticBackupException("Missing key: backup")]
    ELSE
    LET backup == conf["backup"]
        dirs == Get(backup, "directories", <<>>)
        s3 == [backup |-> backup,
               restic |-> Get(conf, "restic_path", DEFAULT_RESTIC),
               one_file_system |-> Get(backup, "one_file_system", TRUE),
               exclude |-> GetOpt(backup, "exclude"),
               exclude_file |-> GetOpt(backup, "exclude_file"),
               email_enabled |-> "email" \in DOMAIN conf
                                 /\ Get(conf["email"], "enabled", TRUE),
               directories |-> [i \in 1..Len(dirs) |-> PathStr(dirs[i])]]
           @@ (IF "email" \in DOMAIN conf THEN [email |-> conf["email"]] ELSE <<>>)
    IN  IF "forget" \notin DOMAIN conf
        THEN [self |-> s3 @@ [forget_enabled |-> FALSE], exc |-> NoError]
        ELSE
        LET forget == conf["forget"]
            s4 == s3 @@ [forget |-> forget,
                         forget_enabled |-> Get(forget, "enabled", TRUE)]
        IN  IF "keep" \notin DOMAIN forget
            THEN [self |-> s4, exc |-> Exc("KeyError", "keep", <<>>, <<>>)]
            ELSE [self |-> s4 @@ [keep |-> forget["keep"]], exc |-> NoError]

\* Config.__init__ from the parsed document on: the attributes set, and the
\* exception raised if any
Config__init__(conf) ==
    IF "backup" \notin DOMAIN conf
    THEN [self |-> <<>>, exc |-> ResticBackupException("Missing key: backup")]
    ELSE
    LET backup == conf["backup"]
        s1 == [backup |-> backup,
               restic |-> Get(conf, "restic_path", DEFAULT_RESTIC),
               one_file_system |-> Get(backup, "one_file_system", TRUE),
               exclude |-> GetOpt(backup, "exclude"),
               exclude_file |-> GetOpt(backup, "exclude_file")]
        s2 == IF "email" \notin DOMAIN conf
              THEN s1 @@ [email_enabled |-> FALSE]
              ELSE s1 @@ [email |-> conf["email"],
                          email_enabled |-> Get(conf["email"], "enabled", TRUE)]
    IN  IF "directories" \notin DOMAIN backup
        THEN [self |-> s2, exc |-> ResticBackupException("Missing key: directories")]
        ELSE
        LET dirs == backup["directories"]
            s3 == s2 @@ [directories |-> [i \in 1..Len(dirs) |-> PathStr(dirs[i])]]
        IN  IF "forget" \notin DOMAIN conf
            THEN [self |-> s3 @@ [forget_enabled |-> FALSE], exc |-> NoError]
            ELSE
            LET forget == conf["forget"]
                s4 == s3 @@ [forget |-> forget,
                             forget_enabled |-> Get(forget, "enabled", TRUE)]
            IN  IF "keep" \notin DOMAIN forget
                THEN [self |-> s4, exc |-> Exc("KeyError", "keep", <<>>, <<>>)]
                ELSE [self |-> s4 @@ [keep |-> forget["keep"]], exc |-> NoError]

\* `'' if i + 1 and not space_at_end == num_dirs else ' '` (line 103):
\* `not` binds looser than ==, and a bool compares with an int as 0 or 1
BoolAsInt(b) == IF b THEN 1 ELSE 0
Separator(i, space_at_end, num_dirs) ==
    IF (i + 1 # 0) /\ ~(BoolAsInt(space_at_end) = num_dirs) THEN <<>> ELSE <<SP>>

\* Config._list_to_cmd(l, space_at_end); i is enumerate's index, from 0
_list_to_cmd(l, space_at_end) ==
    Concat([j \in 1..Len(l) |-> l[j] \o Separator(j - 1, space_at_end, Len(l))])

\* an Optional attribute is truthy when it is neither None nor empty
Truthy(o) == o # <<>> /\ o[1] # <<>>

BACKUP_ == <<" ", "b", "a", "c", "k", "u", "p", " ">>
ONE_FILE_SYSTEM_ == <<"-", "-", "o", "n", "e", "-", "f", "i", "l", "e", "-",
                      "s", "y", "s", "t", "e", "m", " ">>
_EXCLUDE == <<" ", "-", "-", "e", "x", "c", "l", "u", "d", "e", "=">>
_EXCLUDE_FILE == <<" ", "-", "-", "e", "x", "c", "l", "u", "d", "e", "-",
                   "f", "i", "l", "e", "=">>
FORGET_ == <<" ", "f", "o", "r", "g", "e", "t", " ">>
KEEP_ == <<"-", "-", "k", "e", "e", "p", "-">>
CHECK_ == <<" ", "c", "h", "e", "c", "k">>

\* Config.backup_cmd
backup_cmd(self) ==
    LET cmd  == self.restic \o BACKUP_
                \o (IF self.one_file_system THEN ONE_FILE_SYSTEM_ ELSE <<>>)
                \o _list_to_cmd(self.directories, FALSE)
        cmd2 == IF Truthy(self.exclude)
                THEN cmd \o _EXCLUDE \o _list_to_cmd(self.exclude[1], FALSE)
                ELSE cmd
    IN  IF Truthy(self.exclude_file)
        THEN cmd2 \o _EXCLUDE_FILE \o self.exclude_file[1]
        ELSE cmd2

\* `for k, v in self.keep` (line 93): iterating the mapping yields its keys,
\* and each key, a str, is unpacked into k and v, which needs two characters
KeepItems(keep) == [i \in 1..Len(keep) |-> keep[i][1]]
Unpackable(item) == Len(item) = 2

\* Config.forget_cmd: the exception raised if any, and the Optional[str] returned
forget_cmd(self) ==
    IF ~self.forget_enabled
    THEN [exc |-> NoError, value |-> <<>>]
    ELSE
    LET items == KeepItems(self.keep)
    IN  IF \E i \in 1..Len(items) : ~Unpackable(items[i])
        THEN [exc |-> Exc("ValueError", "values to unpack (expected 2)", <<>>, <<>>),
              value |-> <<>>]
        ELSE
        LET cmds == [i \in 1..Len(items) |->
                        LET k == items[i][1]
                            v == items[i][2]
                        IN  KEEP_ \o <<k>> \o <<SP>> \o <<v>>]
            args == Join(<<SP>>, cmds)
        IN  [exc |-> NoError, value |-> <<self.restic \o FORGET_ \o args>>]

\* the command line of _run_check (line 133)
check_cmd(self) == self.restic \o CHECK_

----------------------------------------------------------------------------
(* CommandResult and the job runner *)

\* the CommandResult _run_cmd builds (lines 129-130); cmd is the argv
CommandResult(exit_code, cmd) ==
    [exit_code |-> exit_code, stdout |-> <<>>, stderr |-> <<>>, cmd |-> cmd]

\* StageFailed with no exit code escalated
StageFailed_Never(exit_code) == FALSE

\* StageFailed with the comparison off by one: exit code 1 passes
StageFailed_OffByOne(exit_code) == exit_code > 1

\* the test `exit_code > 0` of lines 141, 147 and 154
StageFailed(exit_code) == exit_code > 0

\* line 142
BackupFailure(result) ==
    Exc("ResticBackupException", "Non zero exit code: {} for command: {}",
        <<result.exit_code>>, <<result.cmd>>)

\* lines 148-150: the code printed is return_code, set at line 140
ForgetFailure(return_code, forget_result) ==
    Exc("ResticBackupException", "Non zero exit code: {} for command: {}",
        <<return_code>>, <<forget_result.cmd>>)

\* line 155
CheckFailure == ResticBackupException("check failed")

\* AfterBackup with the check run only inside the forget branch
AfterBackup_CheckUnderForget(self) ==
    IF self.forget_enabled THEN "forget"
    ELSE IF self.email_enabled THEN "email" ELSE "done"

\* AfterBackup with the forget stage left out whatever the configuration
AfterBackup_SkipForget(self) == "check"

\* where _run_main_job goes after a backup that did not fail (line 143)
AfterBackup(self) == IF self.forget_enabled THEN "forget" ELSE "check"

\* AfterJob with the test of email_enabled left out
AfterJob_Always(self) == "email"

\* where main goes once _run_main_job has returned (line 204)
AfterJob(self) == IF self.email_enabled THEN "email" ELSE "done"

----------------------------------------------------------------------------
(* _send_result_email *)

Content(r) == [cmd |-> r.cmd, exit_code |-> r.exit_code,
               stdout |-> r.stdout, stderr |-> r.stderr]

\* was_successful without the `not`: an exit code <= 0 counts as a success
was_successful_Uninverted(r) == r.exit_code <= 0

\* line 184: `not r.exit_code <= 0`
was_successful(r) == ~(r.exit_code <= 0)

\* lines 181-191: False in {was_successful(r) for r in results}
all_successful(rs) == FALSE \in {was_successful(rs[i]) : i \in 1..Len(rs)}

\* line 192
Status(rs) == IF all_successful(rs) THEN "was Successful" ELSE "Failed"

\* AddressError with the KeyError of a missing key left unwrapped
AddressError_Unwrapped(email) ==
    IF "to" \notin DOMAIN email THEN Exc("KeyError", "to", <<>>, <<>>)
    ELSE IF "from" \notin DOMAIN email THEN Exc("KeyError", "from", <<>>, <<>>)
    ELSE NoError

\* lines 167-175: the exception raised when to or from is not configured
AddressError(email) ==
    IF "to" \notin DOMAIN email
    THEN ResticBackupException("No email recipients configured")
    ELSE IF "from" \notin DOMAIN email
    THEN ResticBackupException("Must have a 'from' address configured")
    ELSE NoError

\* ShouldSend with the two policy flags taken for each other
ShouldSend_Swapped(ok, on_success, on_failure) ==
    (ok /\ on_failure) \/ (~ok /\ on_success)

\* line 195: whether yag.send is called
ShouldSend(ok, on_success, on_failure) ==
    (ok /\ on_success) \/ (~ok /\ on_failure)

\* _send_result_email(results, config) with yagmail importable or not:
\* the exception raised if any, and the messages handed to yag.send
_send_result_email(rs, self, installed) ==
    IF ~installed THEN [exc |-> NoError, msgs |-> <<>>]
    ELSE IF "email" \notin DOMAIN self
    THEN [exc |-> Exc("AttributeError", "email", <<>>, <<>>), msgs |-> <<>>]
    ELSE IF AddressError(self.email) # NoError
    THEN [exc |-> AddressError(self.email), msgs |-> <<>>]
    ELSE
    LET on_success == Get(self.email, "on_success", TRUE)
        on_failure == Get(self.email, "on_failure", TRUE)
        msg == [to |-> self.email["to"], sender |-> self.email["from"],
                status |-> Status(rs),
                contents |-> [i \in 1..Len(rs) |-> Content(rs[i])]]
    IN  [exc |-> NoError,
         msgs |-> IF ShouldSend(all_successful(rs), on_success, on_failure)
                  THEN <<msg>> ELSE <<>>]

----------------------------------------------------------------------------
(* The documents, lists and results the model draws its inputs from *)

RECURSIVE SeqsUpTo(_, _)
\* the sequences over S of length at most n
SeqsUpTo(S, n) ==
    IF n = 0 THEN {<<>>}
    ELSE LET shorter == SeqsUpTo(S, n - 1)
         IN  shorter \cup {Append(q, x) : q \in shorter, x \in S}

\* None or one of S
OptOf(S) == {<<>>} \cup {<<x>> : x \in S}

Paths == {<<"/", "a">>, <<"b", "/">>}
Patterns == {<<"*", ".", "o">>, <<"t", "m", "p">>}
Units == {<<"d", "a", "i", "l", "y">>, <<"w", "e", "e", "k", "l", "y">>, <<"7", "d">>}
Counts == {4, 7}

\* a mapping has each key once
KeepMappings(n) ==
    {k \in SeqsUpTo(Units \X Counts, n) :
        \A i, j \in 1..Len(k) : k[i][1] = k[j][1] => i = j}

BackupSections(dirs, ofs, excludes, files) ==
    {Entry("directories", d) @@ Entry("one_file_system", o)
        @@ Entry("exclude", e) @@ Entry("exclude_file", f) :
        d \in dirs, o \in ofs, e \in excludes, f \in files}

ForgetSections(enableds, keeps) ==
    {Entry("enabled", e) @@ Entry("keep", k) : e \in enableds, k \in keeps}

EmailSections(enableds, tos, froms, succ, fail) ==
    {Entry("enabled", e) @@ Entry("to", t) @@ Entry("from", f)
        @@ Entry("on_success", s) @@ Entry("on_failure", g) :
        e \in enableds, t \in tos, f \in froms, s \in succ, g \in fail}

Documents(backups, paths, forgets, emails) ==
    {Entry("backup", b) @@ Entry("restic_path", p)
        @@ Entry("forget", f) @@ Entry("email", e) :
        b \in backups, p \in paths, f \in forgets, e \in emails}

Address == OptOf({"ops@example.org"})

\* the documents of a run of main
MainDocuments ==
    Documents(
        OptOf(BackupSections(OptOf({<<<<"/", "a">>>>, <<<<"/", "a">>, <<"b", "/">>>>}),
                             {<<>>}, {<<>>}, {<<>>})),
        {<<>>},
        OptOf(ForgetSections(OptOf(BOOLEAN),
                             OptOf({<<>>, <<<<<<"d", "a", "i", "l", "y">>, 7>>>>,
                                    <<<<<<"7", "d">>, 4>>>>}))),
        OptOf(EmailSections({<<>>, <<FALSE>>}, Address, Address,
                            {<<>>, <<FALSE>>}, {<<>>})))

\* the documents Config is loaded from when its methods are called directly
ConfigDocuments ==
    Documents(
        OptOf(BackupSections(OptOf(SeqsUpTo(Paths, MaxList - 1)), OptOf({FALSE}),
                             OptOf(SeqsUpTo(Patterns, 1)), OptOf({<<>>, <<"x">>}))),
        OptOf({<<"r">>}),
        OptOf(ForgetSections(OptOf(BOOLEAN), OptOf(KeepMappings(MaxKeep)))),
        {<<>>})

\* the configurations _send_result_email is called with directly
DispatchDocuments ==
    Documents(
        {<<Entry("directories", <<<<<<"/", "a">>>>>>)>>},
        {<<>>},
        {<<>>},
        OptOf(EmailSections({<<>>}, Address, Address, OptOf(BOOLEAN), OptOf(BOOLEAN))))

IdleCall == [l |-> <<>>, space_at_end |-> FALSE]
NoReturn == [fn |-> "", exc |-> NoError, value |-> <<>>]

----------------------------------------------------------------------------
(* main: Config(conf_file), _run_main_job, _send_result_email *)

Init ==
    /\ raw \in MainDocuments
    /\ yagmail \in BOOLEAN
    /\ pc = "load"
    /\ config = <<>>
    /\ running = <<>>
    /\ executed = <<>>
    /\ results = <<>>
    /\ error = NoError
    /\ dispatched = <<>>
    /\ sent = <<>>
    /\ call = IdleCall
    /\ ret = NoReturn

\* an exception leaves main
Raise(exc) ==
    /\ error' = exc
    /\ pc' = "raised"

\* line 202: config = Config(conf_file)
LoadConfig ==
    /\ pc = "load"
    /\ LET r == Config__init__(raw)
       IN  /\ config' = r.self
           /\ IF r.exc = NoError
              THEN pc' = "backup" /\ error' = error
              ELSE Raise(r.exc)
    /\ UNCHANGED <<raw, yagmail, running, executed, results, dispatched, sent, call, ret>>

\* _run_cmd up to Popen (lines 124-126): the child runs
Spawn(cmd, waiting) ==
    /\ running' = <<ShlexSplit(cmd)>>
    /\ executed' = Append(executed, ShlexSplit(cmd))
    /\ pc' = waiting
    /\ UNCHANGED <<raw, yagmail, config, results, error, dispatched, sent, call, ret>>

\* Popen raises: the tool cannot be launched
PopenFails ==
    /\ \/ pc \in {"backup", "check"}
       \/ pc = "forget" /\ forget_cmd(config).exc = NoError
    /\ Raise(Exc("OSError", "Popen", <<>>, <<>>))
    /\ UNCHANGED <<raw, yagmail, config, running, executed, results, dispatched, sent, call, ret>>

\* StartBackup without the wait for the child (no proc.communicate()):
\* _run_main_job goes on while the backup runs
StartBackup_NoWait ==
    /\ pc = "backup"
    /\ running' = <<ShlexSplit(backup_cmd(config))>>
    /\ executed' = Append(executed, ShlexSplit(backup_cmd(config)))
    /\ pc' = AfterBackup(config)
    /\ UNCHANGED <<raw, yagmail, config, results, error, dispatched, sent, call, ret>>

\* _do_backup (lines 110-112, 138)
StartBackup ==
    /\ pc = "backup"
    /\ Spawn(backup_cmd(config), "backup_wait")

\* FinishBackup with a retry: a failed backup is run again instead of raising
FinishBackup_Retry(exit_code) ==
    /\ pc = "backup_wait"
    /\ LET result == CommandResult(exit_code, running[1])
       IN  /\ results' = IF StageFailed(result.exit_code) THEN results
                         ELSE Append(results, result)
           /\ running' = <<>>
           /\ pc' = IF StageFailed(result.exit_code) THEN "backup"
                    ELSE AfterBackup(config)
           /\ error' = error
    /\ UNCHANGED <<raw, yagmail, config, executed, dispatched, sent, call, ret>>

\* the backup exits with exit_code (lines 127-130, 139-143)
FinishBackup(exit_code) ==
    /\ pc = "backup_wait"
    /\ LET result == CommandResult(exit_code, running[1])
       IN  /\ results' = Append(results, result)
           /\ running' = <<>>
           /\ IF StageFailed(result.exit_code)
              THEN Raise(BackupFailure(result))
              ELSE pc' = AfterBackup(config) /\ error' = error
    /\ UNCHANGED <<raw, yagmail, config, executed, dispatched, sent, call, ret>>

\* _do_forget (lines 115-120, 144): forget_cmd is built, then run
StartForget ==
    /\ pc = "forget"
    /\ LET c == forget_cmd(config)
       IN  IF c.exc # NoError
           THEN /\ Raise(c.exc)
                /\ UNCHANGED <<raw, yagmail, config, running, executed, results,
                               dispatched, sent, call, ret>>
           ELSE Spawn(c.value[1], "forget_wait")

\* forget exits with exit_code (lines 146-150); return_code is the backup's
FinishForget(exit_code) ==
    /\ pc = "forget_wait"
    /\ LET forget_result == CommandResult(exit_code, running[1])
           return_code == results[1].exit_code
       IN  /\ results' = Append(results, forget_result)
           /\ running' = <<>>
           /\ IF StageFailed(forget_result.exit_code)
              THEN Raise(ForgetFailure(return_code, forget_result))
              ELSE pc' = "check" /\ error' = error
    /\ UNCHANGED <<raw, yagmail, config, executed, dispatched, sent, call, ret>>

\* _run_check (lines 132-133, 152)
StartCheck ==
    /\ pc = "check"
    /\ Spawn(check_cmd(config), "check_wait")

\* check exits with exit_code (lines 153-157), and main goes on (line 204)
FinishCheck(exit_code) ==
    /\ pc = "check_wait"
    /\ LET check_result == CommandResult(exit_code, running[1])
       IN  /\ results' = Append(results, check_result)
           /\ running' = <<>>
           /\ IF StageFailed(check_result.exit_code)
              THEN Raise(CheckFailure)
              ELSE pc' = AfterJob(config) /\ error' = error
    /\ UNCHANGED <<raw, yagmail, config, executed, dispatched, sent, call, ret>>

\* line 205: _send_result_email(results, config)
SendResultEmail ==
    /\ pc = "email"
    /\ LET r == _send_result_email(results, config, yagmail)
       IN  /\ dispatched' = Append(dispatched, results)
           /\ sent' = sent \o r.msgs
           /\ IF r.exc = NoError
              THEN pc' = "done" /\ error' = error
              ELSE Raise(r.exc)
    /\ UNCHANGED <<raw, yagmail, config, running, executed, results, call, ret>>

Next ==
    \/ LoadConfig
    \/ StartBackup
    \/ \E c \in ExitCodes : FinishBackup(c)
    \/ StartForget
    \/ \E c \in ExitCodes : FinishForget(c)
    \/ StartCheck
    \/ \E c \in ExitCodes : FinishCheck(c)
    \/ PopenFails
    \/ SendResultEmail

Spec == Init /\ [][Next]_vars

----------------------------------------------------------------------------
(* Config and its methods, called directly on every document *)

InitConfig ==
    /\ raw \in ConfigDocuments
    /\ yagmail = TRUE
    /\ pc = "load"
    /\ config = <<>>
    /\ running = <<>>
    /\ executed = <<>>
    /\ results = <<>>
    /\ error = NoError
    /\ dispatched = <<>>
    /\ sent = <<>>
    /\ call = IdleCall
    /\ ret = NoReturn

\* config.backup_cmd() on a loaded Config
BackupCmdCall ==
    /\ pc = "backup"
    /\ ret' = [fn |-> "backup_cmd", exc |-> NoError, value |-> <<backup_cmd(config)>>]
    /\ UNCHANGED <<raw, yagmail, pc, config, running, executed, results, error,
                   dispatched, sent, call>>

\* config.forget_cmd() on a loaded Config
ForgetCmdCall ==
    /\ pc = "backup"
    /\ LET c == forget_cmd(config)
       IN  ret' = [fn |-> "forget_cmd", exc |-> c.exc, value |-> c.value]
    /\ UNCHANGED <<raw, yagmail, pc, config, running, executed, results, error,
                   dispatched, sent, call>>

NextConfig ==
    \/ LoadConfig
    \/ BackupCmdCall
    \/ ForgetCmdCall

SpecConfig == InitConfig /\ [][NextConfig]_vars

----------------------------------------------------------------------------
(* Config._list_to_cmd, called directly on every list *)

Words == {<<"/", "a">>, <<"b">>, <<"c", "d">>}

InitJoin ==
    /\ raw = <<>>
    /\ yagmail = TRUE
    /\ pc = "call"
    /\ config = <<>>
    /\ running = <<>>
    /\ executed = <<>>
    /\ results = <<>>
    /\ error = NoError
    /\ dispatched = <<>>
    /\ sent = <<>>
    /\ call \in [l : SeqsUpTo(Words, MaxList), space_at_end : BOOLEAN]
    /\ ret = NoReturn

\* self._list_to_cmd(l, space_at_end), or self._list_to_cmd(l) with the default
ListToCmdCall ==
    /\ pc = "call"
    /\ pc' = "returned"
    /\ ret' = [fn |-> "_list_to_cmd", exc |-> NoError,
               value |-> <<_list_to_cmd(call.l, call.space_at_end)>>]
    /\ UNCHANGED <<raw, yagmail, config, running, executed, results, error, dispatched, sent, call>>

NextJoin == ListToCmdCall

SpecJoin == InitJoin /\ [][NextJoin]_vars

----------------------------------------------------------------------------
(* _send_result_email, called directly on every result list *)

\* the argv of the i-th stage of a run with forget enabled
StageCmd(self, i) ==
    ShlexSplit(IF i = 1 THEN backup_cmd(self)
               ELSE IF i = 2 THEN self.restic \o FORGET_
               ELSE check_cmd(self))

InitDispatch ==
    /\ raw \in DispatchDocuments
    /\ yagmail \in BOOLEAN
    /\ pc = "email"
    /\ config = Config__init__(raw).self
    /\ running = <<>>
    /\ executed = <<>>
    /\ \E codes \in SeqsUpTo(ExitCodes, MaxResults) :
          results = [i \in 1..Len(codes) |-> CommandResult(codes[i], StageCmd(config, i))]
    /\ error = NoError
    /\ dispatched = <<>>
    /\ sent = <<>>
    /\ call = IdleCall
    /\ ret = NoReturn

NextDispatch == SendResultEmail

SpecDispatch == InitDispatch /\ [][NextDispatch]_vars

----------------------------------------------------------------------------
(* Properties of the job runner and of main, under Spec *)

Last(q) == q[Len(q)]

\* the restic subcommand of a result: the second word of its argv
Subcommand(r) == r.cmd[2]

BACKUP == <<"b", "a", "c", "k", "u", "p">>
FORGET == <<"f", "o", "r", "g", "e", "t">>
CHECK == <<"c", "h", "e", "c", "k">>

\* the exceptions _run_main_job raises for a stage's exit code
IsStageFailure(exc) ==
    /\ exc.type = "ResticBackupException"
    /\ exc.text \in {"Non zero exit code: {} for command: {}", "check failed"}

\* C1: fail-fast on exit codes > 0.  Every result is that of the process
\* started in the same place of the run, and a result with an exit code > 0
\* is the last one: the run has raised, no process is running, and no
\* process was started after it.  So a failed backup is followed by no
\* forget and no check, and a failed forget by no check, with forget
\* enabled or not.
C1_NoStageAfterFailure ==
    /\ \A i \in 1..Len(results) : results[i].cmd = executed[i]
    /\ \A i \in 1..Len(results) :
          results[i].exit_code > 0 =>
             /\ pc = "raised"
             /\ running = <<>>
             /\ Len(results) = i
             /\ Len(executed) = i

\* C1 witness: with forget enabled, forget ran and failed, and check never ran
C1_Witness ==
    /\ pc = "raised"
    /\ Len(results) = 2
    /\ config.forget_enabled
    /\ Subcommand(results[2]) = FORGET
    /\ results[2].exit_code > 0
    /\ Len(executed) = 2

\* C2: fail-fast on every non-zero exit code.  A result with an exit code
\* different from 0, negative ones included, ends the run with a stage
\* failure and no process is started after it.
C2_AnyNonZeroFailsFast ==
    \A i \in 1..Len(results) :
        results[i].exit_code # 0 =>
            /\ pc = "raised"
            /\ IsStageFailure(error)
            /\ Len(executed) = i

\* C3: with e-mail enabled, once the job has completed, by returning or by
\* a stage failure, and main has ended, _send_result_email has been called
\* with the full list of the results of the stages that ran.
C3_DispatchedOnCompletion ==
    (/\ "email_enabled" \in DOMAIN config
     /\ config.email_enabled
     /\ \/ pc = "done"
        \/ pc = "raised" /\ IsStageFailure(error))
    => dispatched = <<results>>

\* C5: the exception raised for a failing stage prints that stage's own
\* exit code and command line.
C5_FailureCarriesOwnCode ==
    (/\ pc = "raised"
     /\ results # <<>>
     /\ Last(results).exit_code > 0)
    => /\ IsStageFailure(error)
       /\ error.code = <<Last(results).exit_code>>
       /\ error.cmd = <<Last(results).cmd>>

\* _run_main_job has returned its results to main
Returned == pc \in {"email", "done"} \/ dispatched # <<>>

\* C6: the result list never holds more than 3 entries, and the list
\* _run_main_job returns is [backup, check] when forget is not enabled and
\* [backup, forget, check] when it is.
C6_ResultsOnSuccess ==
    /\ Len(results) <= 3
    /\ Returned =>
          LET subcommands == [i \in 1..Len(results) |-> Subcommand(results[i])]
          IN  IF config.forget_enabled
              THEN subcommands = <<BACKUP, FORGET, CHECK>>
              ELSE subcommands = <<BACKUP, CHECK>>

\* C6 witness: a run with forget enabled has returned three results
C6_Witness ==
    /\ pc = "done"
    /\ config.forget_enabled
    /\ Len(results) = 3

----------------------------------------------------------------------------
(* Properties of _send_result_email, under SpecDispatch *)

\* C4: a result list holding an exit code > 0 is classified as failed: a
\* message is sent iff on_failure is true, and its subject says Failed.
C4_AnyFailureClassifiedFailed ==
    (/\ pc = "done"
     /\ yagmail
     /\ \E i \in 1..Len(results) : results[i].exit_code > 0)
    => /\ sent # <<>> <=> Get(config.email, "on_failure", TRUE)
       /\ \A i \in 1..Len(sent) : sent[i].status = "Failed"

----------------------------------------------------------------------------
(* Properties of Config._list_to_cmd, under SpecJoin *)

\* C7: with the default space_at_end, _list_to_cmd puts exactly one space
\* between consecutive elements and none after the last: N elements come
\* out with N - 1 separators, one element alone, no element as "".
C7_JoinSingleSpace ==
    (pc = "returned" /\ ~call.space_at_end)
    => /\ ret.value = <<Join(<<SP>>, call.l)>>
       /\ Count(SP, ret.value[1]) = IF call.l = <<>> THEN 0 ELSE Len(call.l) - 1

----------------------------------------------------------------------------
(* Properties of Config, under SpecConfig *)

\* '--keep-<unit> <count>' of one item of the retention policy
KeepArg(item) == KEEP_ \o item[1] \o <<SP>> \o IntStr(item[2])

\* C8: forget_cmd returns None when forget is not enabled, and otherwise
\* returns, without failing, '<restic> forget ' followed by the
\* '--keep-<unit> <count>' of every item of keep, in order, space-joined.
C8_ForgetCmd ==
    ret.fn = "forget_cmd" =>
        /\ ret.exc = NoError
        /\ IF ~config.forget_enabled
           THEN ret.value = <<>>
           ELSE ret.value =
                  <<config.restic \o FORGET_
                    \o Join(<<SP>>, [i \in 1..Len(config.keep) |-> KeepArg(config.keep[i])])>>

\* the document has the keys whose absence fails the load before forget is read
HasBackupKeys(conf) == "backup" \in DOMAIN conf /\ "directories" \in DOMAIN conf["backup"]

\* C9: a loaded configuration with forget enabled has a non-empty keep; a
\* forget section that is not disabled and whose keep is missing or empty
\* fails the load with the ResticBackupException of a missing key; and a
\* forget section that is disabled loads without keep.
C9_KeepRequiredWhenEnabled ==
    (pc # "load" /\ HasBackupKeys(raw)) =>
        /\ (pc = "backup" /\ config.forget_enabled) =>
              ("keep" \in DOMAIN config /\ config.keep # <<>>)
        /\ ("forget" \in DOMAIN raw /\ Get(raw["forget"], "enabled", TRUE)
              /\ Get(raw["forget"], "keep", <<>>) = <<>>) =>
              (pc = "raised" /\ error.type = "ResticBackupException")
        /\ ("forget" \in DOMAIN raw /\ ~Get(raw["forget"], "enabled", TRUE)) =>
              pc = "backup"

\* C10: after a load that succeeded, the list of directories is not empty.
C10_DirectoriesNonEmpty ==
    pc = "backup" => config.directories # <<>>


----------------------------------------------------------------------------
(* Further properties of main, under Spec *)

\* the message of the ResticBackupException of the first required key missing
MissingKeyText(conf) ==
    IF "backup" \notin DOMAIN conf THEN "Missing key: backup"
    ELSE "Missing key: directories"

\* C11: a document without the backup key, or without directories under
\* backup, fails the load with the ResticBackupException naming that key,
\* and in that run no process is started, no result is recorded and
\* _send_result_email is never called.
C11_MissingKeyStopsBeforeAnyProcess ==
    (pc # "load" /\ ~HasBackupKeys(raw)) =>
        /\ pc = "raised"
        /\ error = ResticBackupException(MissingKeyText(raw))
        /\ executed = <<>>
        /\ running = <<>>
        /\ results = <<>>
        /\ dispatched = <<>>
        /\ sent = <<>>

\* C11 witness: the load failed on a backup section without directories
C11_Witness ==
    /\ pc = "raised"
    /\ "backup" \in DOMAIN raw
    /\ "directories" \notin DOMAIN raw["backup"]
    /\ error.text = "Missing key: directories"


\* the messages of the exceptions of a missing recipient or sender
AddressTexts == {"No email recipients configured", "Must have a 'from' address configured"}

\* C12: with e-mail enabled and yagmail importable, a call of
\* _send_result_email without `to` (or, `to` given, without `from`) raises
\* the ResticBackupException of the missing address and sends nothing,
\* whatever on_success says and although the job returned its results; and
\* that exception is never raised before _send_result_email is called, so
\* never by the load.
C12_MissingAddressFailsAtDispatch ==
    /\ (dispatched # <<>> /\ yagmail /\ "to" \notin DOMAIN config.email) =>
          /\ pc = "raised"
          /\ error = ResticBackupException("No email recipients configured")
          /\ sent = <<>>
    /\ (dispatched # <<>> /\ yagmail /\ "to" \in DOMAIN config.email
          /\ "from" \notin DOMAIN config.email) =>
          /\ pc = "raised"
          /\ error = ResticBackupException("Must have a 'from' address configured")
          /\ sent = <<>>
    /\ error.text \in AddressTexts => dispatched # <<>>

\* C12 witness: the job returned, the flag on_success is off, and the call
\* raised for the missing recipient
C12_Witness ==
    /\ pc = "raised"
    /\ dispatched # <<>>
    /\ "to" \notin DOMAIN config.email
    /\ ~Get(config.email, "on_success", TRUE)
    /\ error.text = "No email recipients configured"
    /\ Len(results) >= 2


\* C13: _send_result_email does nothing when e-mail is not enabled or when
\* yagmail cannot be imported.  Once the job has returned, in either case no
\* message is sent and no exception is raised, with `to` and `from`
\* configured or not; and without e-mail enabled the function is not called.
C13_NoOpWhenDisabledOrUnavailable ==
    (Returned /\ (~config.email_enabled \/ ~yagmail)) =>
        /\ sent = <<>>
        /\ error = NoError
        /\ pc \in {"email", "done"}
        /\ ~config.email_enabled => (dispatched = <<>> /\ pc = "done")

\* C13 witness: yagmail is missing, no recipient is configured, and the call
\* returned
C13_Witness ==
    /\ pc = "done"
    /\ ~yagmail
    /\ dispatched # <<>>
    /\ "to" \notin DOMAIN config.email


----------------------------------------------------------------------------
(* Further properties of _send_result_email, under SpecDispatch *)

\* what lines 181-191 compute: the run counts as successful when some
\* result has an exit code <= 0
ClassifiedSuccessful == \E i \in 1..Len(results) : results[i].exit_code <= 0

\* C14: a call that gets as far as the decision (yagmail importable, to and
\* from configured) sends one message when the run is classified successful
\* and on_success is true, or classified failed and on_failure is true, and
\* none otherwise, both flags being true when absent; the status of the
\* subject is the classification that selected the flag; and no call sends
\* more than one message.
C14_SentIffFlagOfClassification ==
    /\ Len(sent) <= 1
    /\ (pc = "done" /\ yagmail) =>
          LET on_success == IF "on_success" \in DOMAIN config.email
                            THEN config.email["on_success"] ELSE TRUE
              on_failure == IF "on_failure" \in DOMAIN config.email
                            THEN config.email["on_failure"] ELSE TRUE
          IN  /\ sent # <<>> <=> \/ ClassifiedSuccessful /\ on_success
                                 \/ ~ClassifiedSuccessful /\ on_failure
              /\ \A i \in 1..Len(sent) :
                    sent[i].status = IF ClassifiedSuccessful THEN "was Successful"
                                     ELSE "Failed"

\* C14 witness: a run classified failed, with on_failure on and on_success
\* off, has sent its one message
C14_Witness ==
    /\ pc = "done"
    /\ Len(sent) = 1
    /\ sent[1].status = "Failed"
    /\ results # <<>>
    /\ "on_success" \in DOMAIN config.email
    /\ ~config.email["on_success"]


----------------------------------------------------------------------------
(* Further properties of Config, under SpecConfig *)

\* a command-line word without the blanks written around it in the source
Strip(s) == Concat(DropAll({<<SP>>}, [i \in 1..Len(s) |-> <<s[i]>>]))

\* the segments of the backup command line of a loaded Config, in order:
\* the tool, the subcommand, the flag if set, the targets joined by single
\* spaces, and the two exclude options if their values are given
BackupSegments(self) ==
    <<self.restic, Strip(BACKUP_)>>
    \o (IF self.one_file_system THEN <<Strip(ONE_FILE_SYSTEM_)>> ELSE <<>>)
    \o <<Join(<<SP>>, self.directories)>>
    \o (IF self.exclude # <<>> /\ self.exclude[1] # <<>>
        THEN <<Strip(_EXCLUDE) \o Join(<<SP>>, self.exclude[1])>> ELSE <<>>)
    \o (IF self.exclude_file # <<>> /\ self.exclude_file[1] # <<>>
        THEN <<Strip(_EXCLUDE_FILE) \o self.exclude_file[1]>> ELSE <<>>)

\* C15: backup_cmd returns its segments in the fixed order tool, backup,
\* --one-file-system iff set, the targets separated from each other by
\* single spaces, --exclude=<patterns> iff given, --exclude-file=<path> iff
\* given, each segment separated from the next by a single space.
C15_BackupCmdSegments ==
    ret.fn = "backup_cmd" => ret.value = <<Join(<<SP>>, BackupSegments(config))>>


----------------------------------------------------------------------------
(* The order of the stages, under Spec *)

RECURSIVE IsPrefix(_, _)
\* p is an initial part of q
IsPrefix(p, q) ==
    \/ p = <<>>
    \/ /\ q # <<>>
       /\ Head(p) = Head(q)
       /\ IsPrefix(Tail(p), Tail(q))

\* the subcommands of the processes started so far
Started == [i \in 1..Len(executed) |-> executed[i][2]]

\* C16: the stages run one after the other in the order backup, forget,
\* check.  The processes started are an initial part of that order (without
\* forget when it is not enabled); every process started before the last
\* one has exited and left its result, so a process is started only once all
\* earlier ones have exited; and at most one process, the last one started,
\* is running.
C16_StrictlySequential ==
    /\ executed # <<>> =>
          IsPrefix(Started, IF config.forget_enabled
                            THEN <<BACKUP, FORGET, CHECK>>
                            ELSE <<BACKUP, CHECK>>)
    /\ Len(results) <= Len(executed)
    /\ Len(executed) <= Len(results) + 1
    /\ \A i \in 1..Len(results) : results[i].cmd = executed[i]
    /\ running = IF Len(executed) = Len(results) THEN <<>> ELSE <<Last(executed)>>

\* C16 witness: check is running after backup and forget have exited
C16_Witness ==
    /\ pc = "check_wait"
    /\ Len(executed) = 3
    /\ Len(results) = 2
    /\ running = <<executed[3]>>


\* the backup has exited without failing, and so has forget if it is enabled
ReadyForCheck ==
    /\ results # <<>>
    /\ results[1].exit_code <= 0
    /\ config.forget_enabled =>
          (Len(results) >= 2 /\ Subcommand(results[2]) = FORGET
             /\ results[2].exit_code <= 0)

\* C17: check always follows a forget that succeeded or was skipped.  Once
\* the backup has not failed and forget is either not enabled or has not
\* failed, _run_check is the next thing done: the run is about to start
\* check, or check is the process running, or check has exited and its
\* result is the last entry of results; the only other outcome is that Popen
\* could not launch it.  And without forget enabled no forget command is
\* ever started.
C17_CheckAlwaysFollows ==
    /\ ReadyForCheck =>
          \/ pc = "check" /\ Len(executed) = Len(results)
          \/ pc = "check_wait" /\ Last(Started) = CHECK
          \/ /\ pc \in {"email", "done", "raised"}
             /\ Last(Started) = CHECK
             /\ Subcommand(Last(results)) = CHECK
             /\ Len(results) = Len(executed)
          \/ pc = "raised" /\ error.type = "OSError" /\ Last(Started) # CHECK
    /\ (executed # <<>> /\ ~config.forget_enabled) =>
          \A i \in 1..Len(Started) : Started[i] # FORGET

\* C17 witness: without forget enabled, check ran right after the backup and
\* its result is the last of the two
C17_Witness ==
    /\ pc = "done"
    /\ ~config.forget_enabled
    /\ Len(results) = 2
    /\ Subcommand(results[2]) = CHECK
    /\ Started = <<BACKUP, CHECK>>


\* how many of the processes started ran the subcommand sub
Occurrences(sub, q) == Cardinality({i \in 1..Len(q) : q[i][2] = sub})

\* C18: nothing is retried.  In every step of a run each of backup, forget
\* and check has been started at most once, whatever the exit codes, and a
\* run that has raised starts no process and stays raised.
C18_NoRetry ==
    [][/\ \A sub \in {BACKUP, FORGET, CHECK} : Occurrences(sub, executed') <= 1
       /\ pc = "raised" => (executed' = executed /\ pc' = "raised")]_vars

\* C18 witness: forget failed after a backup that passed, each started once
C18_Witness ==
    /\ pc = "raised"
    /\ Len(results) = 2
    /\ results[2].exit_code > 0
    /\ Occurrences(BACKUP, executed) = 1
    /\ Occurrences(FORGET, executed) = 1
    /\ Occurrences(CHECK, executed) = 0


\* C19: in a run of main _send_result_email is called at most once, only
\* once check has exited, and with the results of the run, in which every
\* exit code is <= 0; a run in which some exit code is > 0 never calls it.
C19_DispatchOnlyAfterCleanJob ==
    /\ Len(dispatched) <= 1
    /\ dispatched # <<>> =>
          /\ dispatched[1] = results
          /\ Subcommand(Last(results)) = CHECK
          /\ running = <<>>
          /\ \A i \in 1..Len(results) : results[i].exit_code <= 0
    /\ (\E i \in 1..Len(results) : results[i].exit_code > 0) => dispatched = <<>>

\* C19 witness: the one call was made, after a check that was killed by a
\* signal
C19_Witness ==
    /\ Len(dispatched) = 1
    /\ Len(dispatched[1]) = 3
    /\ dispatched[1][3].exit_code < 0


----------------------------------------------------------------------------
(* The classification as the code computes it, under SpecDispatch *)

\* C20: a call that gets as far as the decision, on a non-empty result
\* list whose exit codes are all <= 0, sends iff on_success is true, with
\* the subject 'was Successful'; on a list whose exit codes are all > 0,
\* the empty list included, it sends iff on_failure is true, with the
\* subject 'Failed'.
C20_ClassificationAsCoded ==
    (pc = "done" /\ yagmail) =>
        /\ (results # <<>> /\ \A i \in 1..Len(results) : results[i].exit_code <= 0) =>
              /\ sent # <<>> <=> Get(config.email, "on_success", TRUE)
              /\ \A i \in 1..Len(sent) : sent[i].status = "was Successful"
        /\ (\A i \in 1..Len(results) : results[i].exit_code > 0) =>
              /\ sent # <<>> <=> Get(config.email, "on_failure", TRUE)
              /\ \A i \in 1..Len(sent) : sent[i].status = "Failed"

\* C20 witness: the empty result list was reported as Failed
C20_Witness ==
    /\ pc = "done"
    /\ results = <<>>
    /\ Len(sent) = 1
    /\ sent[1].status = "Failed"

====
